---- MODULE Spec2Model ----
(***************************************************************************)
(* The query service of app/lib/data.ts: eight read operations over the    *)
(* tables revenue, invoices and customers of a hosted database.  Every     *)
(* operation is an async function: it issues its request(s), is suspended  *)
(* until the database has answered, and then maps the answer to a value it *)
(* returns or to an error it raises.                                       *)
(***************************************************************************)
EXTENDS Integers, Sequences, FiniteSets, TLC

VARIABLES db, pc, op, args, requests, arrivals, outcome, walk

vars == <<db, pc, op, args, requests, arrivals, outcome, walk>>

(***************************************************************************)
(* Bounds of the model.                                                    *)
(***************************************************************************)
MaxInvoices == 7
MaxPage == 3
MaxRowsById == 3

(***************************************************************************)
(* null / undefined, and a value that may be null.                         *)
(***************************************************************************)
Null == <<>>
Some(v) == <<v>>
IsNull(o) == Len(o) = 0
Get(o) == o[1]

Min(a, b) == IF a < b THEN a ELSE b

(***************************************************************************)
(* Text.  Strings are compared character by character.                     *)
(***************************************************************************)
CharAt(s, i) == SubSeq(s, i, i)
Tail1(s) == SubSeq(s, 2, Len(s))

Alphabet == " %,-.0123456789@ABCDEFGHIJKLMNOPQRSTUVWXYZ_abcdefghijklmnopqrstuvwxyz"

CaseFold ==
    "A" :> "a" @@ "B" :> "b" @@ "C" :> "c" @@ "D" :> "d" @@ "E" :> "e" @@ "F" :> "f" @@ "G" :> "g" @@
    "H" :> "h" @@ "I" :> "i" @@ "J" :> "j" @@ "K" :> "k" @@ "L" :> "l" @@ "M" :> "m" @@ "N" :> "n" @@
    "O" :> "o" @@ "P" :> "p" @@ "Q" :> "q" @@ "R" :> "r" @@ "S" :> "s" @@ "T" :> "t" @@ "U" :> "u" @@
    "V" :> "v" @@ "W" :> "w" @@ "X" :> "x" @@ "Y" :> "y" @@ "Z" :> "z"

LowerChar(c) == IF c \in DOMAIN CaseFold THEN CaseFold[c] ELSE c

RECURSIVE toLowerCase(_)
toLowerCase(s) ==
    IF Len(s) = 0 THEN "" ELSE LowerChar(CharAt(s, 1)) \o toLowerCase(Tail1(s))

Code(c) == CHOOSE i \in 1..Len(Alphabet) : CharAt(Alphabet, i) = c

RECURSIVE StrLess(_, _)
StrLess(a, b) ==
    IF Len(b) = 0 THEN FALSE
    ELSE IF Len(a) = 0 THEN TRUE
    ELSE IF CharAt(a, 1) = CharAt(b, 1) THEN StrLess(Tail1(a), Tail1(b))
    ELSE Code(CharAt(a, 1)) < Code(CharAt(b, 1))

\* SQL LIKE: % matches any run of characters, _ any one character.
RECURSIVE Like(_, _)
Like(text, pat) ==
    IF Len(pat) = 0 THEN Len(text) = 0
    ELSE IF CharAt(pat, 1) = "%"
         THEN \E k \in 0..Len(text) : Like(SubSeq(text, k + 1, Len(text)), Tail1(pat))
         ELSE /\ Len(text) > 0
              /\ (CharAt(pat, 1) = "_" \/ CharAt(pat, 1) = CharAt(text, 1))
              /\ Like(Tail1(text), Tail1(pat))

\* column.ilike.pattern: LIKE without regard to case.
ilike(text, pat) == Like(toLowerCase(text), toLowerCase(pat))

(***************************************************************************)
(* The database.  The customers and revenue tables hold seed rows; the     *)
(* invoices table is any table of at most MaxInvoices rows, each a copy of *)
(* one of the seed invoices under an id of its own.  An invoice references *)
(* one customer by customer_id.                                            *)
(***************************************************************************)
RevenueRows ==
    << [month |-> "Jan", revenue |-> 2000],
       [month |-> "Feb", revenue |-> 1800],
       [month |-> "Mar", revenue |-> 2200] >>

CustomerRows ==
    << [id |-> "c1", name |-> "Lee Robinson", email |-> "lee@robinson.com",
        image_url |-> "/customers/lee-robinson.png"],
       [id |-> "c2", name |-> "Amy Burns", email |-> "amy@burns.com",
        image_url |-> "/customers/amy-burns.png"],
       [id |-> "c3", name |-> "Evil Rabbit", email |-> "evil@rabbit.com",
        image_url |-> "/customers/evil-rabbit.png"] >>

SeedInvoices ==
    << [customer_id |-> "c1", amount |-> 10000, status |-> "paid",    date |-> "2022-12-06"],
       [customer_id |-> "c2", amount |-> 5000,  status |-> "pending", date |-> "2022-12-06"],
       [customer_id |-> "c2", amount |-> 2000,  status |-> "paid",    date |-> "2022-11-14"] >>

InvoiceId(i) == "i" \o ToString(i)

InvoiceRow(id, k) ==
    [id |-> id, customer_id |-> SeedInvoices[k].customer_id, amount |-> SeedInvoices[k].amount,
     date |-> SeedInvoices[k].date, status |-> SeedInvoices[k].status]

\* Tables are taken up to the order and the naming of their rows: the seeds
\* chosen appear in non-decreasing order and row i has id InvoiceId(i).
SeedChoices(n) ==
    {f \in [1..n -> 1..Len(SeedInvoices)] : \A i \in 1..n : \A j \in 1..n : i <= j => f[i] <= f[j]}

InvoiceTables ==
    UNION {{[i \in 1..n |-> InvoiceRow(InvoiceId(i), f[i])] : f \in SeedChoices(n)} : n \in 0..MaxInvoices}

Databases ==
    {[revenue |-> RevenueRows, customers |-> CustomerRows, invoices |-> t] : t \in InvoiceTables}

(***************************************************************************)
(* The query builder of the database client.  A query selects the rows of  *)
(* a table that pass its filter, orders them and cuts a window out of      *)
(* them.  Rows that tie under ORDER BY come in an order the database       *)
(* chooses anew for every query; the model lets it keep the table's order  *)
(* or reverse it.                                                          *)
(***************************************************************************)
TieBreaks == {"asc", "desc"}

\* The second components of the pairs <<key, position>> of P, smallest key
\* first; no two pairs of P have the same key.
RECURSIVE SortBy(_)
SortBy(P) ==
    IF P = {} THEN <<>>
    ELSE LET m == CHOOSE p \in P : \A q \in P : p[1] <= q[1]
         IN  <<m[2]>> \o SortBy(P \ {m})

\* .order(column): the positions S of `table` by ascending (or descending)
\* text of `column`, ties broken by `tie`.
order(table, S, column, ascending, tie) ==
    LET n == Len(table)
        rank(i) == IF ascending
                   THEN Cardinality({j \in S : StrLess(table[j][column], table[i][column])})
                   ELSE Cardinality({j \in S : StrLess(table[i][column], table[j][column])})
        pos(i) == IF tie = "asc" THEN i ELSE n + 1 - i
    IN  SortBy({<<rank(i) * (n + 1) + pos(i), i>> : i \in S})

\* .range(from, to) and .limit(n): rows from..to of s, counted from 0.
range(s, from, to) == SubSeq(s, from + 1, Min(to + 1, Len(s)))
limit(s, n) == range(s, 0, n - 1)

\* The embedded resource customers(...): the customers an invoice references.
CustomersOf(d, invoice) ==
    SelectSeq(d.customers, LAMBDA c : c.id = invoice.customer_id)

\* The embedded resource invoices(...): the invoices that reference a customer.
InvoicesOf(d, customer) ==
    SelectSeq(d.invoices, LAMBDA inv : inv.customer_id = customer.id)

(***************************************************************************)
(* What the database answers: {data, count, error}.                        *)
(***************************************************************************)
DbError == "PostgrestError"

Response(data, count, error) == [data |-> data, count |-> count, error |-> error]
Rows(rows) == Response(Some(rows), Null, Null)
Count(n) == Response(Null, Some(n), Null)
Failure == Response(Null, Null, Some(DbError))
NoResponse == Response(Null, Null, Null)

Positions(table) == 1..Len(table)

\* from("revenue").select("*").order("month")
revenueQuery(d, tie) ==
    LET s == order(d.revenue, Positions(d.revenue), "month", TRUE, tie)
    IN  Rows([i \in 1..Len(s) |-> d.revenue[s[i]]])

\* latestInvoicesQuery in ascending order of date.
latestInvoicesQuery_Ascending(d, tie) ==
    LET s == limit(order(d.invoices, Positions(d.invoices), "date", TRUE, tie), 5)
        customer(c) == [name |-> c.name, image_url |-> c.image_url, email |-> c.email]
        row(inv) == [amount |-> inv.amount, id |-> inv.id,
                     customers |-> [j \in 1..Len(CustomersOf(d, inv)) |->
                                       customer(CustomersOf(d, inv)[j])]]
    IN  Rows([i \in 1..Len(s) |-> row(d.invoices[s[i]])])

\* from("invoices").select("amount, customers(name, image_url, email), id")
\*   .order("date", {ascending: false}).limit(5)
latestInvoicesQuery(d, tie) ==
    LET s == limit(order(d.invoices, Positions(d.invoices), "date", FALSE, tie), 5)
        customer(c) == [name |-> c.name, image_url |-> c.image_url, email |-> c.email]
        row(inv) == [amount |-> inv.amount, id |-> inv.id,
                     customers |-> [j \in 1..Len(CustomersOf(d, inv)) |->
                                       customer(CustomersOf(d, inv)[j])]]
    IN  Rows([i \in 1..Len(s) |-> row(d.invoices[s[i]])])

\* select("*", {count: "exact", head: true}): the number of rows, no rows.
invoiceCountQuery(d) == Count(Len(d.invoices))
customerCountQuery(d) == Count(Len(d.customers))

\* from("invoices").select("amount, status")
invoiceStatusQuery(d) ==
    Rows([i \in 1..Len(d.invoices) |->
             [amount |-> d.invoices[i].amount, status |-> d.invoices[i].status]])

\* .or(customers.name.ilike.%q%, customers.email.ilike.%q%, amount.ilike.%q%,
\*     date.ilike.%q%, status.ilike.%q%)
invoiceFilter(d, inv, query) ==
    LET pat == "%" \o query \o "%"
        cs == CustomersOf(d, inv)
    IN  \/ \E j \in 1..Len(cs) : ilike(cs[j].name, pat)
        \/ \E j \in 1..Len(cs) : ilike(cs[j].email, pat)
        \/ ilike(ToString(inv.amount), pat)
        \/ ilike(inv.date, pat)
        \/ ilike(inv.status, pat)

MatchingInvoices(d, query) == {i \in Positions(d.invoices) : invoiceFilter(d, d.invoices[i], query)}

\* from("invoices").select(...).or(filter).order("date", {ascending: false})
\*   .range(offset, offset + ITEMS_PER_PAGE - 1)
filteredInvoicesQuery(d, query, from, to, tie) ==
    LET s == range(order(d.invoices, MatchingInvoices(d, query), "date", FALSE, tie), from, to)
        customer(c) == [name |-> c.name, email |-> c.email, image_url |-> c.image_url]
        row(inv) == [id |-> inv.id, amount |-> inv.amount, date |-> inv.date,
                     status |-> inv.status, customer_id |-> inv.customer_id,
                     customers |-> [j \in 1..Len(CustomersOf(d, inv)) |->
                                       customer(CustomersOf(d, inv)[j])]]
    IN  Rows([i \in 1..Len(s) |-> row(d.invoices[s[i]])])

\* from("invoices").select("*", {count: "exact", head: true}).or(filter)
invoicesPagesQuery(d, query) == Count(Cardinality(MatchingInvoices(d, query)))

\* The error of .single() when the result is not exactly one row.
NotSingleRow == "PGRST116"

\* The first row of the result, as .limit(1).maybeSingle() gives it.
single_FirstRow(rows) ==
    IF Len(rows) >= 1 THEN Response(Some(rows[1]), Null, Null)
    ELSE Response(Null, Null, Some(NotSingleRow))

\* .single(): the one row of the result; an error unless there is exactly one.
single(rows) ==
    IF Len(rows) = 1 THEN Response(Some(rows[1]), Null, Null)
    ELSE Response(Null, Null, Some(NotSingleRow))

\* from("invoices").select("id, customer_id, amount, status").eq("id", id).single()
invoiceByIdQuery(d, id) ==
    LET found == SelectSeq(d.invoices, LAMBDA inv : inv.id = id)
    IN  single([i \in 1..Len(found) |->
                   [id |-> found[i].id, customer_id |-> found[i].customer_id,
                    amount |-> found[i].amount, status |-> found[i].status]])

\* from("customers").select("id, name").order("name")
customersQuery(d, tie) ==
    LET s == order(d.customers, Positions(d.customers), "name", TRUE, tie)
    IN  Rows([i \in 1..Len(s) |-> [id |-> d.customers[s[i]].id, name |-> d.customers[s[i]].name]])

\* .or(name.ilike.%q%, email.ilike.%q%)
customerFilter(c, query) ==
    LET pat == "%" \o query \o "%"
    IN  ilike(c.name, pat) \/ ilike(c.email, pat)

\* from("customers").select("id, name, email, image_url, invoices(id, amount, status)")
\*   .or(filter).order("name")
filteredCustomersQuery(d, query, tie) ==
    LET S == {i \in Positions(d.customers) : customerFilter(d.customers[i], query)}
        s == order(d.customers, S, "name", TRUE, tie)
        invoice(inv) == [id |-> inv.id, amount |-> inv.amount, status |-> inv.status]
        row(c) == [id |-> c.id, name |-> c.name, email |-> c.email, image_url |-> c.image_url,
                   invoices |-> Some([j \in 1..Len(InvoicesOf(d, c)) |->
                                         invoice(InvoicesOf(d, c)[j])])]
    IN  Rows([i \in 1..Len(s) |-> row(d.customers[s[i]])])

(***************************************************************************)
(* How an invocation ends: it returns a value or raises an error.          *)
(***************************************************************************)
NoOutcome == [kind |-> "none", value |-> Null, error |-> ""]
Return(v) == [kind |-> "return", value |-> v, error |-> ""]
Throw(e) == [kind |-> "throw", value |-> Null, error |-> e]

\* try { body } catch (error) { console.error(...); throw new Error(message); }
TryCatch(body, message) == IF body.kind = "throw" THEN Throw(message) ELSE body

\* Reading a property of undefined, as in invoice.customers[0].name with no
\* customers[0].
TypeError == "TypeError"

\* formatCurrency of ./utils: a minor-unit amount as a US-dollar string,
\* 123456 -> "$1,234.56".
Pad(n, width) == IF width = 3 /\ n < 10 THEN "00" \o ToString(n)
                 ELSE IF n < 10 \/ (width = 3 /\ n < 100) THEN "0" \o ToString(n)
                 ELSE ToString(n)

RECURSIVE Grouped(_)
Grouped(n) == IF n < 1000 THEN ToString(n) ELSE Grouped(n \div 1000) \o "," \o Pad(n % 1000, 3)

formatCurrency(amount) == "$" \o Grouped(amount \div 100) \o "." \o Pad(amount % 100, 2)

\* Number(x) of a numeric column is the number itself.
Number(x) == x

\* amount / 100 as a decimal number: whole units and hundredths.
DividedBy100(amount) == [units |-> amount \div 100, hundredths |-> amount % 100]

\* rows.reduce((acc, inv) => acc + (inv.status === status ? inv.amount : 0), acc)
RECURSIVE reduce(_, _, _)
reduce(rows, status, acc) ==
    IF Len(rows) = 0 THEN acc
    ELSE reduce(Tail(rows), status,
                acc + (IF Head(rows).status = status THEN Head(rows).amount ELSE 0))

\* x ?? fallback
OrElse(o, fallback) == IF IsNull(o) THEN fallback ELSE Get(o)

ITEMS_PER_PAGE == 6

\* Math.floor in the place of Math.ceil.
Floor(a, b) == a \div b

Ceil(a, b) == (a + b - 1) \div b

(***************************************************************************)
(* The eight operations, from the answers of the database to the outcome.  *)
(***************************************************************************)
fetchRevenue(r) ==
    TryCatch(IF ~IsNull(r.error) THEN Throw(Get(r.error)) ELSE Return(Get(r.data)),
             "Failed to fetch revenue data.")

fetchLatestInvoices(r) ==
    TryCatch(
        IF ~IsNull(r.error) THEN Throw(Get(r.error))
        ELSE LET data == Get(r.data)
             IN  IF \E i \in 1..Len(data) : Len(data[i].customers) = 0 THEN Throw(TypeError)
                 ELSE Return([i \in 1..Len(data) |->
                                 [id |-> data[i].id,
                                  amount |-> Number(data[i].amount),
                                  name |-> data[i].customers[1].name,
                                  email |-> data[i].customers[1].email,
                                  image_url |-> data[i].customers[1].image_url]]),
        "Failed to fetch the latest invoices.")

\* totalOf without the test of the status: every amount is added.
totalOf_AnyStatus(invoiceStatus, status) ==
    IF IsNull(invoiceStatus) THEN 0
    ELSE reduce(Get(invoiceStatus), "paid", 0) + reduce(Get(invoiceStatus), "pending", 0)

\* x?.reduce(...) ?? 0
totalOf(invoiceStatus, status) ==
    IF IsNull(invoiceStatus) THEN 0 ELSE reduce(Get(invoiceStatus), status, 0)

fetchCardData(r1, r2, r3) ==
    TryCatch(
        LET invoiceCount == r1.count
            customerCount == r2.count
            invoiceStatus == r3.data
        IN  Return([numberOfCustomers |-> OrElse(customerCount, 0),
                    numberOfInvoices |-> OrElse(invoiceCount, 0),
                    totalPaidInvoices |-> formatCurrency(totalOf(invoiceStatus, "paid")),
                    totalPendingInvoices |-> formatCurrency(totalOf(invoiceStatus, "pending"))]),
        "Failed to fetch card data.")

\* The offset of a page counted from 0.
Offset_FromZero(currentPage) == currentPage * ITEMS_PER_PAGE

Offset(currentPage) == (currentPage - 1) * ITEMS_PER_PAGE

fetchFilteredInvoices(r) ==
    TryCatch(
        IF ~IsNull(r.error) THEN Throw(Get(r.error))
        ELSE LET data == Get(r.data)
             IN  IF \E i \in 1..Len(data) : Len(data[i].customers) = 0 THEN Throw(TypeError)
                 ELSE Return([i \in 1..Len(data) |->
                                 [id |-> data[i].id,
                                  customer_id |-> data[i].customer_id,
                                  amount |-> data[i].amount,
                                  date |-> data[i].date,
                                  status |-> data[i].status,
                                  name |-> data[i].customers[1].name,
                                  email |-> data[i].customers[1].email,
                                  image_url |-> data[i].customers[1].image_url]]),
        "Failed to fetch invoices.")

fetchInvoicesPages(r) ==
    TryCatch(IF ~IsNull(r.error) THEN Throw(Get(r.error))
             ELSE Return(Ceil(OrElse(r.count, 0), ITEMS_PER_PAGE)),
             "Failed to fetch total number of invoices.")

fetchInvoiceById(r) ==
    TryCatch(IF ~IsNull(r.error) THEN Throw(Get(r.error))
             ELSE LET data == Get(r.data)
                  IN  Return([id |-> data.id, customer_id |-> data.customer_id,
                              status |-> data.status, amount |-> DividedBy100(data.amount)]),
             "Failed to fetch invoice.")

fetchCustomers(r) ==
    TryCatch(IF ~IsNull(r.error) THEN Throw(Get(r.error)) ELSE Return(Get(r.data)),
             "Failed to fetch all customers.")

\* customerTotals with the pending total taken over every invoice.
customerTotals_PendingOfAll(customer) ==
    [id |-> customer.id, name |-> customer.name, email |-> customer.email,
     image_url |-> customer.image_url,
     total_invoices |-> IF IsNull(customer.invoices) THEN 0 ELSE Len(Get(customer.invoices)),
     total_pending |-> totalOf(customer.invoices, "pending") + totalOf(customer.invoices, "paid"),
     total_paid |-> totalOf(customer.invoices, "paid")]

customerTotals(customer) ==
    [id |-> customer.id, name |-> customer.name, email |-> customer.email,
     image_url |-> customer.image_url,
     total_invoices |-> IF IsNull(customer.invoices) THEN 0 ELSE Len(Get(customer.invoices)),
     total_pending |-> totalOf(customer.invoices, "pending"),
     total_paid |-> totalOf(customer.invoices, "paid")]

fetchFilteredCustomers(r) ==
    TryCatch(IF ~IsNull(r.error) THEN Throw(Get(r.error))
             ELSE LET data == Get(r.data)
                  IN  Return([i \in 1..Len(data) |-> customerTotals(data[i])]),
             "Failed to fetch customer table.")

(***************************************************************************)
(* The state machine.  An invocation issues its requests and is suspended  *)
(* (pc = "awaiting"); the database answers each request at a time of its   *)
(* own; the invocation resumes once what it awaits has settled and ends    *)
(* with its outcome (pc = "done").                                         *)
(***************************************************************************)
Queries == {"", "PAID", "lee", "2000", "-11-", "a_y", "zzz"}
Pages == 1..MaxPage
Ids == {InvoiceId(i) : i \in 1..MaxInvoices}

NoArgs == [query |-> "", currentPage |-> 0, id |-> ""]
NoWalk == [query |-> "", totalPages |-> Null, pages |-> <<>>]

Pending == [state |-> "pending", response |-> NoResponse]
Settled(response) == [state |-> "settled", response |-> response]

\* The query each request of an operation carries.
Query(d, o, a, i, tie) ==
    CASE o = "fetchRevenue" -> revenueQuery(d, tie)
      [] o = "fetchLatestInvoices" -> latestInvoicesQuery(d, tie)
      [] o = "fetchCardData" /\ i = 1 -> invoiceCountQuery(d)
      [] o = "fetchCardData" /\ i = 2 -> customerCountQuery(d)
      [] o = "fetchCardData" /\ i = 3 -> invoiceStatusQuery(d)
      [] o = "fetchFilteredInvoices" ->
             filteredInvoicesQuery(d, a.query, Offset(a.currentPage),
                                   Offset(a.currentPage) + ITEMS_PER_PAGE - 1, tie)
      [] o = "fetchInvoicesPages" -> invoicesPagesQuery(d, a.query)
      [] o = "fetchInvoiceById" -> invoiceByIdQuery(d, a.id)
      [] o = "fetchCustomers" -> customersQuery(d, tie)
      [] o = "fetchFilteredCustomers" -> filteredCustomersQuery(d, a.query, tie)

IsCountQuery(o, i) == (o = "fetchCardData" /\ i \in {1, 2}) \/ o = "fetchInvoicesPages"

\* What the database may answer to a request: the result of its query, an
\* error or, to a count query, a result that reports no count.
Answers == {"result", "error", "nocount"}

Answer(d, o, a, i, answer, tie) ==
    CASE answer = "error" -> Failure
      [] answer = "nocount" -> NoResponse
      [] answer = "result" -> Query(d, o, a, i, tie)

Init ==
    /\ db \in Databases
    /\ pc = "idle"
    /\ op = "none"
    /\ args = NoArgs
    /\ requests = <<>>
    /\ arrivals = <<>>
    /\ outcome = NoOutcome
    /\ walk = NoWalk

\* An invocation starts: all of its n requests are issued before it awaits.
\* Invocations share no state and the database is only read, so a behaviour
\* follows one invocation from its call to its end.
Call(o, a, n) ==
    /\ pc = "idle"
    /\ pc' = "awaiting"
    /\ op' = o
    /\ args' = a
    /\ requests' = [i \in 1..n |-> Pending]
    /\ arrivals' = <<>>
    /\ outcome' = NoOutcome
    /\ UNCHANGED db

\* The database answers one outstanding request, with one of `answers`.
DbRespondWith(answers) ==
    /\ pc = "awaiting"
    /\ \E i \in 1..Len(requests) : \E answer \in answers : \E tie \in TieBreaks :
          /\ requests[i].state = "pending"
          /\ answer = "nocount" => IsCountQuery(op, i)
          /\ requests' = [requests EXCEPT ![i] = Settled(Answer(db, op, args, i, answer, tie))]
          /\ arrivals' = Append(arrivals, i)
    /\ UNCHANGED <<db, pc, op, args, outcome>>

DbRespond == DbRespondWith(Answers)

\* Promise.race in the place of Promise.all: the first request to settle.
PromiseRace(rs) == \E i \in 1..Len(rs) : rs[i].state = "settled"

\* await of one request, and await Promise.all of several: the database
\* client settles every request with {data, count, error} and rejects none.
PromiseAll(rs) == \A i \in 1..Len(rs) : rs[i].state = "settled"

\* The invocation resumes after its await and runs to its end.
Resume(o, result) ==
    /\ pc = "awaiting"
    /\ op = o
    /\ PromiseAll(requests)
    /\ pc' = "done"
    /\ outcome' = result
    /\ UNCHANGED <<db, op, args, requests, arrivals>>

Call_fetchRevenue == Call("fetchRevenue", NoArgs, 1)
Call_fetchLatestInvoices == Call("fetchLatestInvoices", NoArgs, 1)
Call_fetchCardData == Call("fetchCardData", NoArgs, 3)
Call_fetchFilteredInvoices ==
    \E q \in Queries : \E p \in Pages :
        Call("fetchFilteredInvoices", [NoArgs EXCEPT !.query = q, !.currentPage = p], 1)
Call_fetchInvoicesPages ==
    \E q \in Queries : Call("fetchInvoicesPages", [NoArgs EXCEPT !.query = q], 1)
Call_fetchInvoiceById ==
    \E id \in Ids : Call("fetchInvoiceById", [NoArgs EXCEPT !.id = id], 1)
Call_fetchCustomers == Call("fetchCustomers", NoArgs, 1)
Call_fetchFilteredCustomers ==
    \E q \in Queries : Call("fetchFilteredCustomers", [NoArgs EXCEPT !.query = q], 1)

Resume_fetchRevenue == Resume("fetchRevenue", fetchRevenue(requests[1].response))
Resume_fetchLatestInvoices ==
    Resume("fetchLatestInvoices", fetchLatestInvoices(requests[1].response))
Resume_fetchCardData ==
    Resume("fetchCardData",
           fetchCardData(requests[1].response, requests[2].response, requests[3].response))
Resume_fetchFilteredInvoices ==
    Resume("fetchFilteredInvoices", fetchFilteredInvoices(requests[1].response))
Resume_fetchInvoicesPages ==
    Resume("fetchInvoicesPages", fetchInvoicesPages(requests[1].response))
Resume_fetchInvoiceById == Resume("fetchInvoiceById", fetchInvoiceById(requests[1].response))
Resume_fetchCustomers == Resume("fetchCustomers", fetchCustomers(requests[1].response))
Resume_fetchFilteredCustomers ==
    Resume("fetchFilteredCustomers", fetchFilteredCustomers(requests[1].response))

Next ==
    \/ Call_fetchRevenue /\ UNCHANGED walk
    \/ Call_fetchLatestInvoices /\ UNCHANGED walk
    \/ Call_fetchCardData /\ UNCHANGED walk
    \/ Call_fetchFilteredInvoices /\ UNCHANGED walk
    \/ Call_fetchInvoicesPages /\ UNCHANGED walk
    \/ Call_fetchInvoiceById /\ UNCHANGED walk
    \/ Call_fetchCustomers /\ UNCHANGED walk
    \/ Call_fetchFilteredCustomers /\ UNCHANGED walk
    \/ DbRespond /\ UNCHANGED walk
    \/ Resume_fetchRevenue /\ UNCHANGED walk
    \/ Resume_fetchLatestInvoices /\ UNCHANGED walk
    \/ Resume_fetchCardData /\ UNCHANGED walk
    \/ Resume_fetchFilteredInvoices /\ UNCHANGED walk
    \/ Resume_fetchInvoicesPages /\ UNCHANGED walk
    \/ Resume_fetchInvoiceById /\ UNCHANGED walk
    \/ Resume_fetchCustomers /\ UNCHANGED walk
    \/ Resume_fetchFilteredCustomers /\ UNCHANGED walk

Spec == Init /\ [][Next]_vars

(***************************************************************************)
(* fetchInvoiceById over an invoices table that does not keep its ids      *)
(* unique: a table of at most MaxRowsById rows whose ids are drawn from    *)
(* two, so that an id matches no row, one row or several.                  *)
(***************************************************************************)
ByIdRows ==
    {[id |-> InvoiceId(i), customer_id |-> "c1", amount |-> a, date |-> "2022-12-06",
      status |-> "pending"] : i \in 1..2, a \in {3000, 1234}}

ByIdTables == UNION {[1..n -> ByIdRows] : n \in 0..MaxRowsById}

InitById ==
    /\ db \in {[revenue |-> RevenueRows, customers |-> CustomerRows, invoices |-> t] :
                  t \in ByIdTables}
    /\ pc = "idle"
    /\ op = "none"
    /\ args = NoArgs
    /\ requests = <<>>
    /\ arrivals = <<>>
    /\ outcome = NoOutcome
    /\ walk = NoWalk

NextById ==
    \/ Call_fetchInvoiceById /\ UNCHANGED walk
    \/ DbRespond /\ UNCHANGED walk
    \/ Resume_fetchInvoiceById /\ UNCHANGED walk

SpecById == InitById /\ [][NextById]_vars

(***************************************************************************)
(* A caller that pages through the invoices of one query over the          *)
(* unchanged database: it asks fetchInvoicesPages for the number of pages  *)
(* N, then fetchFilteredInvoices for the pages 1, 2, ..., N + 1, one after *)
(* the other; walk holds what it has been given so far.  A count query     *)
(* with count: "exact" reports its count.                                  *)
(***************************************************************************)
Walk_fetchInvoicesPages ==
    /\ walk = NoWalk
    /\ \E q \in Queries :
          /\ Call("fetchInvoicesPages", [NoArgs EXCEPT !.query = q], 1)
          /\ walk' = [NoWalk EXCEPT !.query = q]

Walk_fetchFilteredInvoices ==
    /\ ~IsNull(walk.totalPages)
    /\ Len(walk.pages) <= Get(walk.totalPages)
    /\ Call("fetchFilteredInvoices",
            [NoArgs EXCEPT !.query = walk.query, !.currentPage = Len(walk.pages) + 1], 1)
    /\ UNCHANGED walk

\* The caller takes the value an invocation returned and goes on.
Walk_receive ==
    /\ pc = "done"
    /\ outcome.kind = "return"
    /\ walk' = IF op = "fetchInvoicesPages"
               THEN [walk EXCEPT !.totalPages = Some(outcome.value)]
               ELSE [walk EXCEPT !.pages = Append(walk.pages, outcome.value)]
    /\ pc' = "idle"
    /\ op' = "none"
    /\ args' = NoArgs
    /\ requests' = <<>>
    /\ arrivals' = <<>>
    /\ outcome' = NoOutcome
    /\ UNCHANGED db

NextWalk ==
    \/ Walk_fetchInvoicesPages
    \/ Walk_fetchFilteredInvoices
    \/ DbRespondWith({"result", "error"}) /\ UNCHANGED walk
    \/ Resume_fetchInvoicesPages /\ UNCHANGED walk
    \/ Resume_fetchFilteredInvoices /\ UNCHANGED walk
    \/ Walk_receive

SpecWalk == Init /\ [][NextWalk]_vars

(***************************************************************************)
(* The properties checked.                                                 *)
(***************************************************************************)
GenericMessage(o) ==
    CASE o = "fetchRevenue" -> "Failed to fetch revenue data."
      [] o = "fetchLatestInvoices" -> "Failed to fetch the latest invoices."
      [] o = "fetchCardData" -> "Failed to fetch card data."
      [] o = "fetchFilteredInvoices" -> "Failed to fetch invoices."
      [] o = "fetchInvoicesPages" -> "Failed to fetch total number of invoices."
      [] o = "fetchInvoiceById" -> "Failed to fetch invoice."
      [] o = "fetchCustomers" -> "Failed to fetch all customers."
      [] o = "fetchFilteredCustomers" -> "Failed to fetch customer table."

Done(o) == pc = "done" /\ op = o
Returned(o) == Done(o) /\ outcome.kind = "return"
Failed(i) == ~IsNull(requests[i].response.error)
Succeeded(i) ==
    /\ IsNull(requests[i].response.error)
    /\ ~IsNull(requests[i].response.count) \/ ~IsNull(requests[i].response.data)
RaisedGeneric == outcome.kind = "throw" /\ outcome.error = GenericMessage(op)

\* C1: whenever a request an operation issued came back with a non-null
\* error, the invocation ends by raising the operation's generic message; it
\* returns no value and does not raise the underlying error.
C1_ErrorRaisesGenericMessage ==
    (pc = "done" /\ \E i \in 1..Len(requests) : Failed(i)) => RaisedGeneric

\* The same, of the seven operations that test the error of their answer.
C1_ExceptCardData ==
    (pc = "done" /\ op # "fetchCardData" /\ \E i \in 1..Len(requests) : Failed(i))
        => RaisedGeneric

\* C2: when one of the three requests of fetchCardData fails and the other
\* two succeed, fetchCardData raises "Failed to fetch card data." and returns
\* no card summary.
C2_PartialFailureFailsCardData ==
    (/\ Done("fetchCardData")
     /\ Cardinality({i \in 1..3 : Failed(i)}) = 1
     /\ Cardinality({i \in 1..3 : Succeeded(i)}) = 2)
        => (outcome.kind = "throw" /\ outcome.error = "Failed to fetch card data.")

\* The sum of amount over the invoices of table t whose status is `status`.
RECURSIVE SumOfAmounts(_, _, _)
SumOfAmounts(t, S, status) ==
    IF S = {} THEN 0
    ELSE LET i == CHOOSE j \in S : TRUE
         IN  (IF t[i].status = status THEN t[i].amount ELSE 0)
                 + SumOfAmounts(t, S \ {i}, status)

PaidTotal(d) == SumOfAmounts(d.invoices, Positions(d.invoices), "paid")
PendingTotal(d) == SumOfAmounts(d.invoices, Positions(d.invoices), "pending")

\* C3: when the amount+status request returned the invoices, the card summary
\* fetchCardData returns has totalPaidInvoices = formatCurrency(sum of amount
\* over the paid invoices) and totalPendingInvoices = formatCurrency(sum of
\* amount over the pending invoices); no invoices give formatCurrency(0) for
\* both, and the amounts 10000 paid, 5000 pending, 2000 paid give the totals
\* formatted from 12000 and 5000.
C3_CardTotals ==
    (Returned("fetchCardData") /\ Succeeded(3)) =>
        /\ outcome.value.totalPaidInvoices = formatCurrency(PaidTotal(db))
        /\ outcome.value.totalPendingInvoices = formatCurrency(PendingTotal(db))
        /\ Len(db.invoices) = 0 =>
              /\ outcome.value.totalPaidInvoices = formatCurrency(0)
              /\ outcome.value.totalPendingInvoices = formatCurrency(0)
        /\ (\E i, j, k \in 1..3 :
               /\ {i, j, k} = 1..3 /\ Len(db.invoices) = 3
               /\ db.invoices[i].amount = 10000 /\ db.invoices[i].status = "paid"
               /\ db.invoices[j].amount = 5000 /\ db.invoices[j].status = "pending"
               /\ db.invoices[k].amount = 2000 /\ db.invoices[k].status = "paid") =>
              /\ outcome.value.totalPaidInvoices = formatCurrency(12000)
              /\ outcome.value.totalPendingInvoices = formatCurrency(5000)

C3_Witness ==
    /\ Returned("fetchCardData")
    /\ Succeeded(3)
    /\ Len(db.invoices) = 3
    /\ outcome.value.totalPaidInvoices = formatCurrency(12000)
    /\ outcome.value.totalPendingInvoices = formatCurrency(5000)

\* The number of invoices that pass the filter of query q.
totalMatches(d, q) == Cardinality(MatchingInvoices(d, q))

Invoice(d, id) == CHOOSE inv \in {d.invoices[i] : i \in Positions(d.invoices)} : inv.id = id
Ids_of(rows) == {rows[i].id : i \in 1..Len(rows)}
Later(S, date) == {inv \in S : StrLess(date, inv.date)}
NotEarlier(S, date) == {inv \in S : ~StrLess(inv.date, date)}

\* rows holds the places from + 1, from + 2, ... of the invoices S in an order
\* of descending date: each row is an invoice of S, no invoice comes twice,
\* and the row at place g has fewer than g invoices of S dated later than it
\* and at least g dated as late as it.
IsWindowByDateDesc(d, rows, S, from) ==
    /\ \A i \in 1..Len(rows) : Invoice(d, rows[i].id) \in S
    /\ Cardinality(Ids_of(rows)) = Len(rows)
    /\ \A i \in 1..Len(rows) :
          LET date == Invoice(d, rows[i].id).date
          IN  /\ Cardinality(Later(S, date)) < from + i
              /\ from + i <= Cardinality(NotEarlier(S, date))

\* C4: fetchFilteredInvoices(q, p) returns at most 6 rows; their number is
\* min(6, totalMatches(q) - 6 * (p - 1)) when that difference is positive and
\* 0 otherwise; the rows are the places (p - 1) * 6 .. (p - 1) * 6 + 5 of the
\* matching invoices in descending order of date.
C4_PageOfFilteredInvoices ==
    Returned("fetchFilteredInvoices") =>
        LET rest == totalMatches(db, args.query) - 6 * (args.currentPage - 1)
            S == {db.invoices[i] : i \in MatchingInvoices(db, args.query)}
        IN  /\ Len(outcome.value) <= 6
            /\ Len(outcome.value) = IF rest > 0 THEN Min(6, rest) ELSE 0
            /\ IsWindowByDateDesc(db, outcome.value, S, 6 * (args.currentPage - 1))
            /\ \A i \in 1..Len(outcome.value) :
                  /\ outcome.value[i].date = Invoice(db, outcome.value[i].id).date
                  /\ outcome.value[i].amount = Invoice(db, outcome.value[i].id).amount
                  /\ outcome.value[i].status = Invoice(db, outcome.value[i].id).status

\* A second page that is not full, of a query that filters.
C4_Witness ==
    /\ Returned("fetchFilteredInvoices")
    /\ args.currentPage = 2
    /\ args.query = "PAID"
    /\ totalMatches(db, args.query) = 7
    /\ Len(outcome.value) = 1

\* C5: fetchInvoicesPages(q) returns ceil(totalMatches(q) / 6), the least
\* number of pages of 6 that hold the matching invoices: 0 when no invoice
\* matches; and 0 when the database reports no count.
C5_TotalPages ==
    Returned("fetchInvoicesPages") =>
        LET total == totalMatches(db, args.query)
            n == outcome.value
        IN  IF IsNull(requests[1].response.count) THEN n = 0
            ELSE /\ n >= 0
                 /\ 6 * n >= total
                 /\ 6 * (n - 1) < total
                 /\ total = 0 => n = 0

C5_Witness ==
    /\ Returned("fetchInvoicesPages")
    /\ args.query = "a_y"
    /\ totalMatches(db, args.query) = 7
    /\ outcome.value = 2

\* C6: fetchLatestInvoices returns min(5, number of invoices) invoices in
\* descending order of date: all of them when fewer than 5 exist, otherwise 5
\* most recently dated ones; each carries the name, email and image_url of
\* its customer.
C6_LatestInvoices ==
    Returned("fetchLatestInvoices") =>
        LET all == {db.invoices[i] : i \in Positions(db.invoices)}
            customer(id) == CHOOSE c \in {db.customers[i] : i \in Positions(db.customers)} :
                                c.id = Invoice(db, id).customer_id
        IN  /\ Len(outcome.value) = Min(5, Len(db.invoices))
            /\ IsWindowByDateDesc(db, outcome.value, all, 0)
            /\ \A i \in 1..Len(outcome.value) :
                  LET row == outcome.value[i]
                  IN  /\ row.amount = Invoice(db, row.id).amount
                      /\ row.name = customer(row.id).name
                      /\ row.email = customer(row.id).email
                      /\ row.image_url = customer(row.id).image_url

\* More than 5 invoices of several dates and customers, 5 of them returned.
C6_Witness ==
    /\ Returned("fetchLatestInvoices")
    /\ Len(db.invoices) = 7
    /\ Len(outcome.value) = 5
    /\ db.invoices[1].date # db.invoices[7].date
    /\ outcome.value[1].name # outcome.value[5].name

Matches(d, id) == {i \in Positions(d.invoices) : d.invoices[i].id = id}

\* C7: fetchInvoiceById(id) returns an invoice only when exactly one row has
\* the id, and then the id, customer_id and status of that row and its stored
\* amount divided by 100 (returned amount * 100 = stored amount); when no row
\* or more than one row has the id it raises "Failed to fetch invoice.".
C7_InvoiceById ==
    Done("fetchInvoiceById") =>
        LET m == Cardinality(Matches(db, args.id))
        IN  /\ m # 1 => (outcome.kind = "throw" /\ outcome.error = "Failed to fetch invoice.")
            /\ (m = 1 /\ requests[1].response.error # Some(DbError)) => outcome.kind = "return"
            /\ outcome.kind = "return" =>
                  /\ m = 1
                  /\ outcome.value.id = args.id
                  /\ outcome.value.customer_id = Invoice(db, args.id).customer_id
                  /\ outcome.value.status = Invoice(db, args.id).status
                  /\ outcome.value.amount.hundredths \in 0..99
                  /\ outcome.value.amount.units * 100 + outcome.value.amount.hundredths
                         = Invoice(db, args.id).amount

\* Several rows have the id, the query itself did not fail, the error is raised.
C7_Witness ==
    /\ Done("fetchInvoiceById")
    /\ Cardinality(Matches(db, args.id)) = 2
    /\ requests[1].response.error = Some(NotSingleRow)
    /\ outcome.kind = "throw"

\* One row has the id and its amount of 1234 is returned as 12.34.
C7_WitnessReturned ==
    /\ Returned("fetchInvoiceById")
    /\ Len(db.invoices) = 3
    /\ outcome.value.amount = [units |-> 12, hundredths |-> 34]

InvoicesOfCustomer(d, id) == {i \in Positions(d.invoices) : d.invoices[i].customer_id = id}

C9_CardDataJoinsAllThree ==
    op = "fetchCardData" =>
        /\ Len(requests) = 3
        /\ (\E i \in 1..3 : requests[i].state = "pending") =>
              (pc = "awaiting" /\ outcome.kind = "none")
        /\ (pc = "done" /\ \A i \in 1..3 : Succeeded(i)) =>
              outcome = Return([numberOfCustomers |-> Len(db.customers),
                                numberOfInvoices |-> Len(db.invoices),
                                totalPaidInvoices |-> formatCurrency(PaidTotal(db)),
                                totalPendingInvoices |-> formatCurrency(PendingTotal(db))])

\* The answers arrived last request first, and the summary was returned.
C9_Witness ==
    /\ Returned("fetchCardData")
    /\ arrivals = <<3, 2, 1>>
    /\ \A i \in 1..3 : Succeeded(i)
    /\ Len(db.invoices) = 3

RECURSIVE Concat(_)
Concat(ss) == IF Len(ss) = 0 THEN <<>> ELSE Head(ss) \o Concat(Tail(ss))

WalkDone == ~IsNull(walk.totalPages) /\ Len(walk.pages) = Get(walk.totalPages) + 1

\* C10: with N = fetchInvoicesPages(q), fetchFilteredInvoices(q, p) is
\* non-empty for every page p in 1..N and empty for page N + 1, and the pages
\* 1..N put one after the other hold every invoice that matches q exactly
\* once, in descending order of date.
C10_PagesHoldEveryMatchOnce ==
    WalkDone =>
        LET N == Get(walk.totalPages)
            all == Concat(SubSeq(walk.pages, 1, N))
            S == {db.invoices[i] : i \in MatchingInvoices(db, walk.query)}
        IN  /\ \A p \in 1..N : Len(walk.pages[p]) > 0
            /\ Len(walk.pages[N + 1]) = 0
            /\ Len(all) = Cardinality(S)
            /\ Ids_of(all) = {inv.id : inv \in S}
            /\ \A i \in 1..(Len(all) - 1) : ~StrLess(all[i].date, all[i + 1].date)

\* What does hold of the pages: which are empty, and their order of date.
C10_PagesNonEmptyUpToN ==
    WalkDone =>
        LET N == Get(walk.totalPages)
            all == Concat(SubSeq(walk.pages, 1, N))
        IN  /\ \A p \in 1..N : Len(walk.pages[p]) > 0
            /\ Len(walk.pages[N + 1]) = 0
            /\ Len(all) = totalMatches(db, walk.query)
            /\ \A i \in 1..(Len(all) - 1) : ~StrLess(all[i].date, all[i + 1].date)

====
